---- MODULE Spec2Model ----
(***************************************************************************)
(* The Fiat-Shamir transcript channel of stark/src/channel.rs:             *)
(* PublicCoin, ProverChannel and VerifierChannel.                          *)
(*                                                                         *)
(* Byte strings are sequences over 0..255.  A u64 is held as its eight     *)
(* base-256 digits, least significant first; a U256 as its thirty-two      *)
(* base-256 digits, least significant first.  The big-endian encodings of  *)
(* the code (to_be_bytes, to_bytes_be, from_be_bytes, from_bytes_be) are   *)
(* the digit reversals.  A FieldElement is the U256 it wraps               *)
(* (FieldElement(pub U256), used as element.0 in the code).                *)
(***************************************************************************)
EXTENDS Integers, Sequences, FiniteSets, TLC

(***************************************************************************)
(* Bounds of the model.                                                    *)
(***************************************************************************)
\* Number of operations performed on the ProverChannel.
MaxProverOps == 2
\* Largest count handed to replay_many.
MaxCount == 2
\* Nonces the proof-of-work search ranges over are 0..MaxNonce.
MaxNonce == 3

(***************************************************************************)
(* Widths fixed by the code.                                               *)
(***************************************************************************)
\* [u8; 32]: digest, block, U256 and FieldElement encodings.
BlockLen == 32
\* u64::to_be_bytes: [u8; 8].
U64Len == 8
\* The zero padding between digest and counter in a draw: [0_u8; 24].
PadLen == 24

(***************************************************************************)
(* Bytes and fixed-width integers.                                         *)
(***************************************************************************)
Reverse(s) ==
    [i \in 1..Len(s) |-> s[Len(s) + 1 - i]]

Zeros(n) ==
    [i \in 1..n |-> 0]

\* u64 from a small natural number (n < 256^3), as little-endian digits.
U64FromNat(n) ==
    [i \in 1..U64Len |->
        IF i = 1 THEN n % 256
        ELSE IF i = 2 THEN (n \div 256) % 256
        ELSE IF i = 3 THEN (n \div 65536) % 256
        ELSE 0]

\* self.counter += 1 on a u64: increment with carry; the carry out of the top
\* digit is dropped (arithmetic modulo 2^64).
RECURSIVE IncFrom(_, _)
IncFrom(x, i) ==
    IF i > Len(x) THEN x
    ELSE IF x[i] = 255 THEN IncFrom([x EXCEPT ![i] = 0], i + 1)
    ELSE [x EXCEPT ![i] = x[i] + 1]

\* The increment that stays at the largest value.
Inc64_saturating(x) ==
    IF \A i \in 1..Len(x) : x[i] = 255 THEN x ELSE IncFrom(x, 1)

Inc64(x) ==
    IncFrom(x, 1)

\* u64::max_value()
U64Max ==
    [i \in 1..U64Len |-> 255]

\* u64::max_value() - 1
U64MaxLess1 ==
    [i \in 1..U64Len |-> IF i = 1 THEN 254 ELSE 255]

u64_to_be_bytes(x) ==
    Reverse(x)

u64_from_be_bytes(b) ==
    Reverse(b)

U256_to_bytes_be(x) ==
    Reverse(x)

U256_from_bytes_be(b) ==
    Reverse(b)

\* a < b on two digit strings of the same length, least significant digit first.
RECURSIVE LtFrom(_, _, _)
LtFrom(a, b, i) ==
    IF i = 0 THEN FALSE
    ELSE IF a[i] # b[i] THEN a[i] < b[i]
    ELSE LtFrom(a, b, i - 1)

U256Lt(a, b) ==
    LtFrom(a, b, BlockLen)

\* FieldElement::MODULUS =
\* 0x0800000000000011000000000000000000000000000000000000000000000001
MODULUS ==
    [i \in 1..BlockLen |->
        IF i = 1 THEN 1 ELSE IF i = 25 THEN 17 ELSE IF i = 32 THEN 8 ELSE 0]

\* number & MASK with MASK = 0x0FFF...FF: the top four bits are cleared.
MaskTop4(x) ==
    [x EXCEPT ![BlockLen] = x[BlockLen] % 16]

(***************************************************************************)
(* Keccak-256 (tiny_keccak, an external crate).  The model keeps its       *)
(* interface - any byte string in, 32 bytes out, a function of the whole   *)
(* input and of its length, update(a); update(b) hashing a \o b - and      *)
(* replaces the permutation by three polynomial lanes over the input,      *)
(* squeezed into 32 bytes.  Inputs are at most 256 bytes long.             *)
(***************************************************************************)
\* r^k modulo p.
RECURSIVE KeccakPower(_, _, _)
KeccakPower(r, k, p) ==
    IF k = 0 THEN 1
    ELSE LET h == KeccakPower(r, k \div 2, p)
         IN  IF k % 2 = 0 THEN (h * h) % p ELSE (((h * h) % p) * r) % p

KeccakWeights1 ==
    [k \in 1..256 |-> KeccakPower(31, k, 32749)]

KeccakWeights2 ==
    [k \in 1..256 |-> KeccakPower(257, k, 32719)]

KeccakWeights3 ==
    [k \in 1..256 |-> KeccakPower(131, k, 32717)]

\* t[lo] + ... + t[hi]
RECURSIVE KeccakSum(_, _, _)
KeccakSum(t, lo, hi) ==
    IF lo > hi THEN 0
    ELSE IF lo = hi THEN t[lo]
    ELSE IF hi = lo + 1 THEN t[lo] + t[hi]
    ELSE LET mid == (lo + hi) \div 2
         IN  KeccakSum(t, lo, mid) + KeccakSum(t, mid + 1, hi)

\* One lane: the polynomial of the bytes in the lane's weights, modulo p.
KeccakLane(data, w, p) ==
    KeccakSum([i \in 1..Len(data) |-> ((data[i] + 1) * w[i]) % p], 1, Len(data)) % p

KeccakSqueeze(h) ==
    [i \in 1..32 |->
        ((h[1] * (i + 2) + h[2] * (i * i + 1) + (h[3] + i) * ((h[1] % 97) + 1))
            \div (1 + (i % 4) * 37)) % 256]

Keccak256(data) ==
    KeccakSqueeze(<<(KeccakLane(data, KeccakWeights1, 32749) + 7 * Len(data)) % 32749,
                    KeccakLane(data, KeccakWeights2, 32719),
                    KeccakLane(data, KeccakWeights3, 32717)>>)

(***************************************************************************)
(* PublicCoin.  A coin is [digest, counter, hist]; digest and counter are  *)
(* the fields of the struct, hist is a history variable that records, in   *)
(* order, every absorption (the bytes absorbed) and every block draw (the  *)
(* big-endian counter bytes fed to the hash).  The code never reads hist.  *)
(***************************************************************************)
CoinState(coin) ==
    [digest |-> coin.digest, counter |-> coin.counter]

\* PublicCoin::new(seed)
PublicCoinNew(seed) ==
    [digest |-> Keccak256(seed), counter |-> U64FromNat(0), hist |-> <<>>]

\* The absorption that keeps the counter.
CoinWrite_keep_counter(coin, data) ==
    [digest  |-> Keccak256(coin.digest \o data),
     counter |-> coin.counter,
     hist    |-> Append(coin.hist, [ev |-> "absorb", data |-> data])]

\* impl Writable<&[u8]> for PublicCoin
CoinWrite(coin, data) ==
    [digest  |-> Keccak256(coin.digest \o data),
     counter |-> U64FromNat(0),
     hist    |-> Append(coin.hist, [ev |-> "absorb", data |-> data])]

\* The draw that ratchets the digest to the block it returns.
CoinGetRandomBlock_ratchet(coin) ==
    LET ctr == u64_to_be_bytes(coin.counter)
        out == Keccak256(coin.digest \o Zeros(PadLen) \o ctr)
    IN  [coin |-> [digest  |-> out,
                   counter |-> Inc64(coin.counter),
                   hist    |-> Append(coin.hist, [ev |-> "draw", data |-> ctr])],
         out  |-> out]

\* impl RandomGenerator<[u8; 32]> for PublicCoin; returns [coin, out].
CoinGetRandomBlock(coin) ==
    LET ctr == u64_to_be_bytes(coin.counter)
    IN  [coin |-> [digest  |-> coin.digest,
                   counter |-> Inc64(coin.counter),
                   hist    |-> Append(coin.hist, [ev |-> "draw", data |-> ctr])],
         out  |-> Keccak256(coin.digest \o Zeros(PadLen) \o ctr)]

\* impl RandomGenerator<U256> for PublicCoin
CoinGetRandomU256(coin) ==
    LET r == CoinGetRandomBlock(coin)
    IN  [coin |-> r.coin, out |-> U256_from_bytes_be(r.out)]

\* The draw of a FieldElement that keeps the first masked number.
CoinGetRandomFE_first(coin) ==
    LET r == CoinGetRandomU256(coin)
    IN  [coin |-> r.coin, out |-> MaskTop4(r.out)]

\* impl RandomGenerator<FieldElement> for PublicCoin: rejection sampling.
RECURSIVE CoinGetRandomFE(_)
CoinGetRandomFE(coin) ==
    LET r    == CoinGetRandomU256(coin)
        seed == MaskTop4(r.out)
    IN  IF U256Lt(seed, MODULUS)
        THEN [coin |-> r.coin, out |-> seed]
        ELSE CoinGetRandomFE(r.coin)

\* get_random for [u8; 32] under the build: with overflow checks on,
\* self.counter += 1 panics at u64::MAX, after the block was computed and
\* before the counter is assigned; with overflow checks off it wraps.
\* Returns [ok, coin, out].
CoinGetRandomBlockBuilt(coin, checks) ==
    IF checks /\ coin.counter = U64Max
    THEN [ok |-> FALSE, coin |-> coin, out |-> <<>>]
    ELSE LET r == CoinGetRandomBlock(coin)
         IN  [ok |-> TRUE, coin |-> r.coin, out |-> r.out]

\* get_random for U256 under the build.
CoinGetRandomU256Built(coin, checks) ==
    LET r == CoinGetRandomBlockBuilt(coin, checks)
    IN  IF r.ok THEN [r EXCEPT !.out = U256_from_bytes_be(r.out)] ELSE r

\* get_random for FieldElement under the build.
RECURSIVE CoinGetRandomFEBuilt(_, _)
CoinGetRandomFEBuilt(coin, checks) ==
    LET r == CoinGetRandomU256Built(coin, checks)
    IN  IF ~r.ok THEN r
        ELSE IF U256Lt(MaskTop4(r.out), MODULUS)
        THEN [r EXCEPT !.out = MaskTop4(r.out)]
        ELSE CoinGetRandomFEBuilt(r.coin, checks)

(***************************************************************************)

(* Proof of work.                                                          *)
(***************************************************************************)
\* hex!("0123456789abcded")
PowTag ==
    <<1, 35, 69, 103, 137, 171, 205, 237>>

\* Leading zero bits of one byte.
ByteLeadingZeros(b) ==
    IF b >= 128 THEN 0 ELSE IF b >= 64 THEN 1 ELSE IF b >= 32 THEN 2
    ELSE IF b >= 16 THEN 3 ELSE IF b >= 8 THEN 4 ELSE IF b >= 4 THEN 5
    ELSE IF b >= 2 THEN 6 ELSE IF b >= 1 THEN 7 ELSE 8

\* U256::leading_zeros, from the most significant digit down.
RECURSIVE LeadingZerosFrom(_, _)
LeadingZerosFrom(x, i) ==
    IF i = 0 THEN 0
    ELSE IF x[i] = 0 THEN 8 + LeadingZerosFrom(x, i - 1)
    ELSE ByteLeadingZeros(x[i])

U256LeadingZeros(x) ==
    LeadingZerosFrom(x, BlockLen)

\* pow_seed hashing the counter as well.
pow_seed_with_counter(coin, pow_bits) ==
    Keccak256(PowTag \o coin.digest \o u64_to_be_bytes(coin.counter) \o <<pow_bits>>)

\* PublicCoin::pow_seed
pow_seed(coin, pow_bits) ==
    Keccak256(PowTag \o coin.digest \o <<pow_bits>>)

\* PublicCoin::pow_verify_with_seed
pow_verify_with_seed(nonce, pow_bits, seed) ==
    LET digest == Keccak256(seed \o u64_to_be_bytes(nonce))
        work   == U256LeadingZeros(U256_from_bytes_be(digest))
    IN  work >= pow_bits

\* PublicCoin::pow_verify
pow_verify(coin, nonce, pow_bits) ==
    pow_verify_with_seed(nonce, pow_bits, pow_seed(coin, pow_bits))

\* The nonces n of 0..MaxNonce that verify.
PowNonces(coin, pow_bits) ==
    LET seed == pow_seed(coin, pow_bits)
    IN  {n \in 0..MaxNonce : pow_verify_with_seed(U64FromNat(n), pow_bits, seed)}

\* The search returning the last nonce of the range that verifies.
pow_find_nonce_last(coin, pow_bits) ==
    LET S == PowNonces(coin, pow_bits)
    IN  U64FromNat(CHOOSE n \in S : \A m \in S : m <= n)

\* PublicCoin::pow_find_nonce: (0u64..).find(..), the first nonce that verifies.
pow_find_nonce(coin, pow_bits) ==
    LET S == PowNonces(coin, pow_bits)
    IN  U64FromNat(CHOOSE n \in S : \A m \in S : n <= m)

\* find_any returning a nonce a worker tried, verified or not.
pow_find_nonce_threaded_untested(coin, pow_bits) ==
    {U64FromNat(n) : n \in 0..MaxNonce}

\* PublicCoin::pow_find_nonce_threaded: find_any(..), the nonces it may return.
pow_find_nonce_threaded(coin, pow_bits) ==
    {U64FromNat(n) : n \in PowNonces(coin, pow_bits)}

\* The nonces the step-by-step searches examine: 0..MaxNonce and the last two
\* of the u64 range.  The nonces between are not examined: they stand for
\* nonces that do not verify.
NonceRange ==
    {U64FromNat(n) : n \in 0..MaxNonce} \cup {U64MaxLess1, U64Max}

NonceAfter(x) ==
    IF x = U64FromNat(MaxNonce) THEN U64MaxLess1 ELSE Inc64(x)

\* One call of next() on the RangeFrom (0u64..): the successor of start is
\* computed before start is yielded.  At u64::MAX the successor overflows:
\* a panic with overflow checks on, 0 with overflow checks off.
RangeFromNext(start, checks) ==
    IF start = U64Max
    THEN IF checks THEN [ok |-> FALSE, yield |-> <<>>, start |-> start]
         ELSE [ok |-> TRUE, yield |-> start, start |-> U64FromNat(0)]
    ELSE [ok |-> TRUE, yield |-> start, start |-> NonceAfter(start)]

\* The range (0..u64::max_value()) of the parallel search: half-open.
ThreadedRange ==
    NonceRange \ {U64Max}

(***************************************************************************)

(* ProverChannel: [coin, proof].                                           *)
(***************************************************************************)
\* ProverChannel::new
ProverChannelNew(seed) ==
    [coin |-> PublicCoinNew(seed), proof |-> seed]

\* The write with the coin fed but the proof not extended.
ProverWriteBytes_coin_only(ch, data) ==
    [coin |-> CoinWrite(ch.coin, data), proof |-> ch.proof]

\* impl Writable<&[u8]> for ProverChannel
ProverWriteBytes(ch, data) ==
    [coin |-> CoinWrite(ch.coin, data), proof |-> ch.proof \o data]

\* impl Writable<&[u8; 32]> for ProverChannel
ProverWriteBlock(ch, data) ==
    ProverWriteBytes(ch, data)

\* impl Writable<u64> for ProverChannel
ProverWriteU64(ch, data) ==
    ProverWriteBytes(ch, u64_to_be_bytes(data))

\* The container built by the two loops of the slice write.
RECURSIVE FEContainer(_)
FEContainer(data) ==
    IF data = <<>> THEN <<>>
    ELSE U256_to_bytes_be(Head(data)) \o FEContainer(Tail(data))

\* The slice write done as one &FieldElement write for each element.
RECURSIVE ProverWriteFESlice_each(_, _)
ProverWriteFESlice_each(ch, data) ==
    IF data = <<>> THEN ch
    ELSE ProverWriteFESlice_each(
             ProverWriteBytes(ch, U256_to_bytes_be(Head(data))), Tail(data))

\* impl Writable<&[FieldElement]> for ProverChannel
ProverWriteFESlice(ch, data) ==
    ProverWriteBytes(ch, FEContainer(data))

\* The write of a FieldElement with a type label before its bytes.
ProverWriteFE_labelled(ch, data) ==
    ProverWriteBytes(ch, <<1>> \o U256_to_bytes_be(data))

\* impl Writable<&FieldElement> for ProverChannel
ProverWriteFE(ch, data) ==
    ProverWriteBytes(ch, U256_to_bytes_be(data))

\* impl Writable<U256> for ProverChannel
ProverWriteU256(ch, data) ==
    ProverWriteBytes(ch, U256_to_bytes_be(data))

\* impl Writable<Vec<U256>> for ProverChannel
RECURSIVE ProverWriteVecU256(_, _)
ProverWriteVecU256(ch, data) ==
    IF data = <<>> THEN ch
    ELSE ProverWriteVecU256(ProverWriteU256(ch, Head(data)), Tail(data))

(***************************************************************************)
(* VerifierChannel: [coin, proof, proof_index].  An operation that panics  *)
(* returns ok = FALSE and the channel as the panic leaves it.              *)
(***************************************************************************)
\* new comparing only as many bytes as the proof has (zip of the two slices).
VerifierChannelNew_zip(seed, proof) ==
    IF \E i \in 1..Len(seed) : i <= Len(proof) /\ proof[i] # seed[i]
    THEN [ok |-> FALSE]
    ELSE [ok |-> TRUE,
          ch |-> [coin |-> PublicCoinNew(seed), proof |-> proof,
                  proof_index |-> Len(seed)]]

\* VerifierChannel::new: assert_eq!(seed, &proof[..seed.len()]) panics when
\* the slice is out of range and when the two differ.
VerifierChannelNew(seed, proof) ==
    IF Len(proof) < Len(seed) \/ SubSeq(proof, 1, Len(seed)) # seed
    THEN [ok |-> FALSE]
    ELSE [ok |-> TRUE,
          ch |-> [coin |-> PublicCoinNew(seed), proof |-> proof,
                  proof_index |-> Len(seed)]]

\* ReplayHolder copying and absorbing the bytes that are left (get(from..to)
\* clamped to the buffer) before it fails.
ReplayHolder_absorb_rest(ch, size) ==
    LET from == ch.proof_index
        to   == from + size
        ch1  == [ch EXCEPT !.proof_index = to]
    IN  IF to > Len(ch.proof)
        THEN [ok  |-> FALSE,
              ch  |-> [ch1 EXCEPT !.coin =
                          CoinWrite(ch1.coin, SubSeq(ch.proof, from + 1, Len(ch.proof)))],
              out |-> <<>>]
        ELSE LET holder == SubSeq(ch.proof, from + 1, to)
             IN  [ok  |-> TRUE,
                  ch  |-> [ch1 EXCEPT !.coin = CoinWrite(ch1.coin, holder)],
                  out |-> holder]

\* ReplayHolder without self.coin.write(&holder[..]).
ReplayHolder_no_absorb(ch, size) ==
    LET from == ch.proof_index
        to   == from + size
        ch1  == [ch EXCEPT !.proof_index = to]
    IN  IF to > Len(ch.proof)
        THEN [ok |-> FALSE, ch |-> ch1, out |-> <<>>]
        ELSE [ok |-> TRUE, ch |-> ch1, out |-> SubSeq(ch.proof, from + 1, to)]

\* The common body of the [u8; 32] and u64 replays: holder of `size` bytes.
\* proof_index is assigned before &self.proof[from..to] is taken.
ReplayHolder(ch, size) ==
    LET from == ch.proof_index
        to   == from + size
        ch1  == [ch EXCEPT !.proof_index = to]
    IN  IF to > Len(ch.proof)
        THEN [ok |-> FALSE, ch |-> ch1, out |-> <<>>]
        ELSE LET holder == SubSeq(ch.proof, from + 1, to)
             IN  [ok  |-> TRUE,
                  ch  |-> [ch1 EXCEPT !.coin = CoinWrite(ch1.coin, holder)],
                  out |-> holder]

\* impl Replayable<[u8; 32]> for VerifierChannel
VerifierReplayBlock(ch) ==
    ReplayHolder(ch, BlockLen)

\* impl Replayable<u64> for VerifierChannel
VerifierReplayU64(ch) ==
    LET r == ReplayHolder(ch, U64Len)
    IN  IF r.ok THEN [r EXCEPT !.out = u64_from_be_bytes(r.out)] ELSE r

\* impl Replayable<U256> for VerifierChannel
VerifierReplayU256(ch) ==
    LET r == VerifierReplayBlock(ch)
    IN  IF r.ok THEN [r EXCEPT !.out = U256_from_bytes_be(r.out)] ELSE r

\* The replay of a FieldElement that refuses a value at or above MODULUS.
VerifierReplayFE_canonical(ch) ==
    LET r == VerifierReplayU256(ch)
    IN  IF r.ok /\ ~U256Lt(r.out, MODULUS) THEN [r EXCEPT !.ok = FALSE] ELSE r

\* impl Replayable<FieldElement> for VerifierChannel: FieldElement(replay())
VerifierReplayFE(ch) ==
    VerifierReplayU256(ch)

\* Replayable::replay_many, the default, used for U256:
\* (0..count).map(|_| self.replay()).collect()
RECURSIVE VerifierReplayManyU256(_, _)
VerifierReplayManyU256(ch, count) ==
    IF count = 0 THEN [ok |-> TRUE, ch |-> ch, out |-> <<>>]
    ELSE LET r == VerifierReplayU256(ch)
         IN  IF ~r.ok THEN r
             ELSE LET rest == VerifierReplayManyU256(r.ch, count - 1)
                  IN  IF rest.ok THEN [rest EXCEPT !.out = <<r.out>> \o rest.out]
                      ELSE rest

\* The loop of Replayable<FieldElement>::replay_many; ret is the vector so far.
RECURSIVE ReplayManyFELoop(_, _, _)
ReplayManyFELoop(ch, len, ret) ==
    IF len = 0 THEN [ok |-> TRUE, ch |-> ch, out |-> ret]
    ELSE LET from == ch.proof_index
             to   == from + BlockLen
             ch1  == [ch EXCEPT !.proof_index = to]
         IN  IF to > Len(ch.proof)
             THEN [ok |-> FALSE, ch |-> ch1, out |-> <<>>]
             ELSE ReplayManyFELoop(ch1, len - 1,
                      Append(ret, U256_from_bytes_be(SubSeq(ch.proof, from + 1, to))))

\* replay_many for FieldElement left to the default: one absorption per element.
VerifierReplayManyFE_default(ch, len) ==
    VerifierReplayManyU256(ch, len)

\* replay_many for FieldElement returning before coin.write when len = 0.
VerifierReplayManyFE_skip_empty(ch, len) ==
    LET start_index == ch.proof_index
        r == ReplayManyFELoop(ch, len, <<>>)
    IN  IF ~r.ok \/ len = 0 THEN r
        ELSE [r EXCEPT !.ch.coin =
                 CoinWrite(r.ch.coin,
                           SubSeq(r.ch.proof, start_index + 1, r.ch.proof_index))]

\* Replayable<FieldElement>::replay_many for VerifierChannel
VerifierReplayManyFE(ch, len) ==
    LET start_index == ch.proof_index
        r == ReplayManyFELoop(ch, len, <<>>)
    IN  IF ~r.ok THEN r
        ELSE [r EXCEPT !.ch.coin =
                 CoinWrite(r.ch.coin,
                           SubSeq(r.ch.proof, start_index + 1, r.ch.proof_index))]

(***************************************************************************)
(* Inputs the operations are called with.                                  *)
(***************************************************************************)
\* hex!("0123456789abcded"), the seed of the tests.
TestSeed ==
    <<1, 35, 69, 103, 137, 171, 205, 237>>

\* The tests' seed, and the empty seed (Vec::default()) the components use.
Seeds ==
    {<<>>, TestSeed}

\* 11_028_357_238_u64
TestU64 ==
    <<118, 96, 87, 145, 2, 0, 0, 0>>

\* u256h!("0389a47fe0e1e5f9c05d8dcb27b069b67b1c7ec61a5c0a3f54d81aea83d2c8f0")
TestFE1 ==
    <<240, 200, 210, 131, 234, 26, 216, 84, 63, 10, 92, 26, 198, 126, 28, 123,
      182, 105, 176, 39, 203, 141, 93, 192, 249, 229, 225, 224, 127, 164, 137, 3>>

\* u256h!("129ab47fe0e1a5f9c05d8dcb27b069b67b1c7ec61a5c0a3f54d81aea83d2c8f0")
TestFE2 ==
    <<240, 200, 210, 131, 234, 26, 216, 84, 63, 10, 92, 26, 198, 126, 28, 123,
      182, 105, 176, 39, 203, 141, 93, 192, 249, 165, 225, 224, 127, 180, 154, 18>>

\* The vectors written: the prefixes of the tests' [TestFE1, TestFE2, ...].
TestVec(n) ==
    [i \in 1..n |-> IF i % 2 = 1 THEN TestFE1 ELSE TestFE2]

Vectors ==
    {TestVec(n) : n \in 0..MaxCount}

\* pow_bits of the proof-of-work calls.
PowBits ==
    {0, 2}

(***************************************************************************)
(* State.                                                                  *)
(***************************************************************************)
VARIABLES
    seed,       \* the seed the prover was created with
    prover,     \* the ProverChannel
    p_log,      \* history: the operations performed on the prover, in order
    v_state,    \* "none": no verifier yet; "live"; "new_panicked": new failed;
                \* "panicked": a replay failed
    v_mode,     \* how the verifier is driven: "follow" or "free" (see V_new)
    v_seed,     \* the seed handed to VerifierChannel::new
    verifier,   \* the VerifierChannel (as the panic left it, when panicked)
    v_log,      \* history: the operations performed on the verifier, in order
    overflow_checks,  \* SpecCoin: the build checks integer overflow (the dev
                \* and test profiles) or wraps (the release profile)
    c_coin,     \* SpecCoin: a PublicCoin on its own
    c_state,    \* SpecCoin: "idle", "ready", "panicked" (a draw overflowed),
                \* "searching", "found", "not_found", "search_overflow"
    c_log,      \* SpecCoin: history of the operations on c_coin
    search      \* SpecCoin: the proof-of-work search under way

channel_vars == <<seed, prover, p_log, v_state, v_mode, v_seed, verifier, v_log>>

coin_vars == <<overflow_checks, c_coin, c_state, c_log, search>>

vars == <<channel_vars, coin_vars>>

NoChannel ==
    [coin |-> [digest |-> <<>>, counter |-> <<>>, hist |-> <<>>],
     proof |-> <<>>, proof_index |-> 0]

\* No search under way.
NoSearch ==
    [kind |-> "none", bits |-> 0, pseed |-> <<>>, start |-> <<>>, tested |-> {},
     result |-> <<>>]

\* One record of the history of a channel: the operation, its type, its
\* argument and result, whether it returned, the coin before and after, the
\* lengths of the coin's history before and after, and the prover's
\* proof.len() (the verifier's proof_index) before and after.
LogEntry(op, ty, arg, val, ok, coin0, coin1, c0, c1) ==
    [op |-> op, ty |-> ty, arg |-> arg, val |-> val, ok |-> ok,
     pre |-> CoinState(coin0), post |-> CoinState(coin1),
     h0 |-> Len(coin0.hist), h1 |-> Len(coin1.hist), c0 |-> c0, c1 |-> c1]

Init ==
    /\ seed \in Seeds
    /\ prover = ProverChannelNew(seed)
    /\ p_log = <<>>
    /\ v_state = "none"
    /\ v_mode = "follow"
    /\ v_seed = <<>>
    /\ verifier = NoChannel
    /\ v_log = <<>>
    /\ overflow_checks = FALSE
    /\ c_coin = NoChannel.coin
    /\ c_state = "idle"
    /\ c_log = <<>>
    /\ search = NoSearch

(***************************************************************************)
(* Operations on the prover.                                               *)
(***************************************************************************)
ProverCanAct ==
    v_state = "none" /\ Len(p_log) < MaxProverOps

\* A write: `next` is the channel after it.
ProverWrites(ty, arg, next) ==
    /\ ProverCanAct
    /\ prover' = next
    /\ p_log' = Append(p_log, LogEntry("write", ty, arg, <<>>, TRUE,
                           prover.coin, next.coin, Len(prover.proof), Len(next.proof)))
    /\ UNCHANGED <<seed, v_state, v_mode, v_seed, verifier, v_log>>
    /\ UNCHANGED coin_vars

\* A draw: r is what get_random returned, [coin, out].
ProverDraws(ty, r) ==
    /\ ProverCanAct
    /\ prover' = [prover EXCEPT !.coin = r.coin]
    /\ p_log' = Append(p_log, LogEntry("draw", ty, <<>>, r.out, TRUE,
                           prover.coin, r.coin, Len(prover.proof), Len(prover.proof)))
    /\ UNCHANGED <<seed, v_state, v_mode, v_seed, verifier, v_log>>
    /\ UNCHANGED coin_vars

\* A proof-of-work call (&self): the channel is not assigned.
ProverPow(ty, arg, val) ==
    /\ ProverCanAct
    /\ p_log' = Append(p_log, LogEntry("pow", ty, arg, val, TRUE,
                           prover.coin, prover.coin, Len(prover.proof), Len(prover.proof)))
    /\ UNCHANGED <<seed, prover, v_state, v_mode, v_seed, verifier, v_log>>
    /\ UNCHANGED coin_vars

\* The blocks a prover writes: a fixed one, and the blocks it has drawn.
ProverBlocks ==
    {Zeros(BlockLen)} \cup
    {p_log[i].val : i \in {j \in 1..Len(p_log) :
                              p_log[j].op = "draw" /\ p_log[j].ty = "block"}}

P_write_block ==
    \E b \in ProverBlocks : ProverWrites("block", b, ProverWriteBlock(prover, b))

P_write_u64 ==
    ProverWrites("u64", TestU64, ProverWriteU64(prover, TestU64))

P_write_U256 ==
    ProverWrites("U256", TestFE2, ProverWriteU256(prover, TestFE2))

P_write_FE ==
    ProverWrites("FE", TestFE1, ProverWriteFE(prover, TestFE1))

P_write_FE_slice ==
    \E d \in Vectors : ProverWrites("FEs", d, ProverWriteFESlice(prover, d))

P_write_Vec_U256 ==
    \E d \in Vectors : ProverWrites("U256s", d, ProverWriteVecU256(prover, d))

\* A draw whose block does not come from the coin.
P_get_random_block_entropy ==
    \E b \in {Zeros(BlockLen), TestFE1} :
        ProverDraws("block", [coin |-> CoinGetRandomBlock(prover.coin).coin, out |-> b])

P_get_random_block ==
    ProverDraws("block", CoinGetRandomBlock(prover.coin))

P_get_random_U256 ==
    ProverDraws("U256", CoinGetRandomU256(prover.coin))

P_get_random_FE ==
    ProverDraws("FE", CoinGetRandomFE(prover.coin))

P_pow_seed ==
    \E bits \in PowBits :
        ProverPow("seed", <<bits>>, pow_seed(prover.coin, bits))

P_pow_verify ==
    \E bits \in PowBits, n \in {0, 1} :
        ProverPow("verify", <<n, bits>>,
                  pow_verify(prover.coin, U64FromNat(n), bits))

P_pow_find_nonce ==
    \E bits \in PowBits :
        /\ ProverCanAct
        /\ PowNonces(prover.coin, bits) # {}
        /\ ProverPow("find", <<bits>>, pow_find_nonce(prover.coin, bits))

P_pow_find_nonce_threaded ==
    /\ ProverCanAct
    /\ \E bits \in PowBits :
           \E nonce \in pow_find_nonce_threaded(prover.coin, bits) :
               ProverPow("find_threaded", <<bits>>, nonce)

ProverNext ==
    \/ P_write_block
    \/ P_write_u64
    \/ P_write_U256
    \/ P_write_FE
    \/ P_write_FE_slice
    \/ P_write_Vec_U256
    \/ P_get_random_block
    \/ P_get_random_U256
    \/ P_get_random_FE
    \/ P_pow_seed
    \/ P_pow_verify
    \/ P_pow_find_nonce
    \/ P_pow_find_nonce_threaded

(***************************************************************************)
(* Operations on the verifier.                                             *)
(***************************************************************************)
\* The proofs handed to VerifierChannel::new: the prover's proof, the proof
\* with its last byte missing, and the proof with one byte of its seed changed.
ProofInputs ==
    LET pf == prover.proof
    IN  {pf} \cup
        (IF pf = <<>> THEN {} ELSE {SubSeq(pf, 1, Len(pf) - 1)}) \cup
        (IF seed = <<>> THEN {} ELSE {[pf EXCEPT ![Len(seed)] = (pf[Len(seed)] + 1) % 256]})

\* VerifierChannel::new(s, pf).  The verifier is then driven in one of two
\* ways: "follow", it repeats the prover's operations in order (the matching
\* replay for every write, the same draw, the same proof-of-work call);
\* "free", it performs one operation of any kind, after a prover that has
\* performed fewer than MaxProverOps operations.
V_new ==
    /\ v_state = "none"
    /\ \E m \in {"follow", "free"} :
          /\ m = "free" => Len(p_log) < MaxProverOps
          /\ v_mode' = m
    /\ \E s \in {seed, TestSeed}, pf \in ProofInputs :
          LET r == VerifierChannelNew(s, pf)
          IN  /\ v_seed' = s
              /\ v_state' = IF r.ok THEN "live" ELSE "new_panicked"
              /\ verifier' = IF r.ok THEN r.ch ELSE [NoChannel EXCEPT !.proof = pf]
    /\ UNCHANGED <<seed, prover, p_log, v_log>>
    /\ UNCHANGED coin_vars

\* The verifier's operation (op, ty, arg) repeats the prover's operation e.
Repeats(e, op, ty, arg) ==
    /\ e.ty = ty
    /\ \/ op = "replay" /\ e.op = "write" /\ ty \notin {"FEs", "U256s"}
       \/ op = "replay" /\ e.op = "write" /\ ty \in {"FEs", "U256s"} /\ Len(e.arg) = arg
       \/ op = "draw" /\ e.op = "draw"
       \/ op = "pow" /\ e.op = "pow" /\ e.arg = arg

VerifierCanAct(op, ty, arg) ==
    /\ v_state = "live"
    /\ IF v_mode = "free" THEN v_log = <<>>
       ELSE /\ Len(v_log) < Len(p_log)
            /\ Repeats(p_log[Len(v_log) + 1], op, ty, arg)

\* A replay: r is what it returned, [ok, ch, out].
VerifierReplays(ty, arg, r) ==
    /\ VerifierCanAct("replay", ty, arg)
    /\ verifier' = r.ch
    /\ v_state' = IF r.ok THEN "live" ELSE "panicked"
    /\ v_log' = Append(v_log, LogEntry("replay", ty, arg, r.out, r.ok,
                           verifier.coin, r.ch.coin,
                           verifier.proof_index, r.ch.proof_index))
    /\ UNCHANGED <<seed, prover, p_log, v_mode, v_seed>>
    /\ UNCHANGED coin_vars

VerifierDraws(ty, r) ==
    /\ VerifierCanAct("draw", ty, <<>>)
    /\ verifier' = [verifier EXCEPT !.coin = r.coin]
    /\ v_log' = Append(v_log, LogEntry("draw", ty, <<>>, r.out, TRUE,
                           verifier.coin, r.coin,
                           verifier.proof_index, verifier.proof_index))
    /\ UNCHANGED <<seed, prover, p_log, v_state, v_mode, v_seed>>
    /\ UNCHANGED coin_vars

VerifierPow(ty, arg, val) ==
    /\ VerifierCanAct("pow", ty, arg)
    /\ v_log' = Append(v_log, LogEntry("pow", ty, arg, val, TRUE,
                           verifier.coin, verifier.coin,
                           verifier.proof_index, verifier.proof_index))
    /\ UNCHANGED <<seed, prover, p_log, v_state, v_mode, v_seed, verifier>>
    /\ UNCHANGED coin_vars

V_replay_block ==
    VerifierReplays("block", <<>>, VerifierReplayBlock(verifier))

V_replay_u64 ==
    VerifierReplays("u64", <<>>, VerifierReplayU64(verifier))

V_replay_U256 ==
    VerifierReplays("U256", <<>>, VerifierReplayU256(verifier))

V_replay_FE ==
    VerifierReplays("FE", <<>>, VerifierReplayFE(verifier))

V_replay_many_FE ==
    \E n \in 0..MaxCount :
        VerifierReplays("FEs", n, VerifierReplayManyFE(verifier, n))

V_replay_many_U256 ==
    \E n \in 0..MaxCount :
        VerifierReplays("U256s", n, VerifierReplayManyU256(verifier, n))

V_get_random_block ==
    VerifierDraws("block", CoinGetRandomBlock(verifier.coin))

V_get_random_U256 ==
    VerifierDraws("U256", CoinGetRandomU256(verifier.coin))

V_get_random_FE ==
    VerifierDraws("FE", CoinGetRandomFE(verifier.coin))

V_pow_seed ==
    \E bits \in PowBits :
        VerifierPow("seed", <<bits>>, pow_seed(verifier.coin, bits))

V_pow_verify ==
    \E bits \in PowBits, n \in {0, 1} :
        VerifierPow("verify", <<n, bits>>,
                    pow_verify(verifier.coin, U64FromNat(n), bits))

V_pow_find_nonce ==
    \E bits \in PowBits :
        /\ VerifierCanAct("pow", "find", <<bits>>)
        /\ PowNonces(verifier.coin, bits) # {}
        /\ VerifierPow("find", <<bits>>, pow_find_nonce(verifier.coin, bits))

V_pow_find_nonce_threaded ==
    \E bits \in PowBits :
        /\ VerifierCanAct("pow", "find_threaded", <<bits>>)
        /\ \E nonce \in pow_find_nonce_threaded(verifier.coin, bits) :
               VerifierPow("find_threaded", <<bits>>, nonce)

VerifierNext ==
    \/ V_new
    \/ V_replay_block
    \/ V_replay_u64
    \/ V_replay_U256
    \/ V_replay_FE
    \/ V_replay_many_FE
    \/ V_replay_many_U256
    \/ V_get_random_block
    \/ V_get_random_U256
    \/ V_get_random_FE
    \/ V_pow_seed
    \/ V_pow_verify
    \/ V_pow_find_nonce
    \/ V_pow_find_nonce_threaded

Next ==
    ProverNext \/ VerifierNext

Spec ==
    Init /\ [][Next]_vars

(***************************************************************************)
(* SpecCoin: a PublicCoin on its own, under either build, from counters    *)
(* that draws reach, with the proof-of-work searches taken step by step.   *)
(***************************************************************************)
\* Operations on the coin before a search.
MaxCoinOps == 2

\* The counters the coin starts from: that of new, and the two that
\* 2^64 - 2 and 2^64 - 1 draws without an absorption lead to.
CounterStarts ==
    {U64FromNat(0), U64MaxLess1, U64Max}

\* What the coin absorbs.
CoinData ==
    {<<>>, TestU64}

\* pow_bits of the searches; no digest has 255 leading zero bits.
SearchBits ==
    {2, 255}

\* The channels are not used.
ChannelsIdle ==
    /\ seed = <<>>
    /\ prover = ProverChannelNew(<<>>)
    /\ p_log = <<>>
    /\ v_state = "none"
    /\ v_mode = "follow"
    /\ v_seed = <<>>
    /\ verifier = NoChannel
    /\ v_log = <<>>

InitCoin ==
    /\ ChannelsIdle
    /\ overflow_checks \in BOOLEAN
    /\ \E s \in Seeds, c \in CounterStarts :
          c_coin = [PublicCoinNew(s) EXCEPT !.counter = c]
    /\ c_state = "ready"
    /\ c_log = <<>>
    /\ search = NoSearch

CoinCanAct ==
    c_state = "ready" /\ Len(c_log) < MaxCoinOps

\* impl Writable<&[u8]> for PublicCoin, called on the coin.
C_write ==
    \E data \in CoinData :
        /\ CoinCanAct
        /\ c_coin' = CoinWrite(c_coin, data)
        /\ c_log' = Append(c_log, LogEntry("write", "bytes", data, <<>>, TRUE,
                               c_coin, c_coin', 0, 0))
        /\ UNCHANGED <<overflow_checks, c_state, search>>
        /\ UNCHANGED channel_vars

\* A draw: r is what get_random did, [ok, coin, out].
CoinDraws(ty, r) ==
    /\ CoinCanAct
    /\ c_coin' = r.coin
    /\ c_state' = IF r.ok THEN "ready" ELSE "panicked"
    /\ c_log' = Append(c_log, LogEntry("draw", ty, <<>>, r.out, r.ok,
                           c_coin, r.coin, 0, 0))
    /\ UNCHANGED <<overflow_checks, search>>
    /\ UNCHANGED channel_vars

C_get_random_block ==
    CoinDraws("block", CoinGetRandomBlockBuilt(c_coin, overflow_checks))

C_get_random_U256 ==
    CoinDraws("U256", CoinGetRandomU256Built(c_coin, overflow_checks))

C_get_random_FE ==
    CoinDraws("FE", CoinGetRandomFEBuilt(c_coin, overflow_checks))

\* pow_find_nonce is entered: the seed is computed, the RangeFrom starts at 0.
C_pow_find_nonce ==
    \E bits \in SearchBits :
        /\ c_state = "ready"
        /\ c_state' = "searching"
        /\ search' = [kind |-> "serial", bits |-> bits,
                      pseed |-> pow_seed(c_coin, bits),
                      start |-> U64FromNat(0), tested |-> {}, result |-> <<>>]
        /\ UNCHANGED <<overflow_checks, c_coin, c_log>>
        /\ UNCHANGED channel_vars

\* One turn of find on the RangeFrom: next(), then the predicate on the
\* nonce it yielded.  The range has no end: find never returns None.
C_find ==
    /\ c_state = "searching" /\ search.kind = "serial"
    /\ LET n == RangeFromNext(search.start, overflow_checks)
       IN  IF ~n.ok
           THEN c_state' = "search_overflow" /\ search' = search
           ELSE IF pow_verify_with_seed(n.yield, search.bits, search.pseed)
           THEN c_state' = "found" /\ search' = [search EXCEPT !.result = n.yield]
           ELSE c_state' = "searching" /\ search' = [search EXCEPT !.start = n.start]
    /\ UNCHANGED <<overflow_checks, c_coin, c_log>>
    /\ UNCHANGED channel_vars

\* pow_find_nonce_threaded is entered: the seed is computed.
C_pow_find_nonce_threaded ==
    \E bits \in SearchBits :
        /\ c_state = "ready"
        /\ c_state' = "searching"
        /\ search' = [kind |-> "threaded", bits |-> bits,
                      pseed |-> pow_seed(c_coin, bits),
                      start |-> <<>>, tested |-> {}, result |-> <<>>]
        /\ UNCHANGED <<overflow_checks, c_coin, c_log>>
        /\ UNCHANGED channel_vars

\* A worker of find_any tests a nonce of the range not tested yet; a match is
\* returned.
C_find_any ==
    /\ c_state = "searching" /\ search.kind = "threaded"
    /\ \E n \in ThreadedRange \ search.tested :
          IF pow_verify_with_seed(n, search.bits, search.pseed)
          THEN c_state' = "found" /\ search' = [search EXCEPT !.result = n]
          ELSE c_state' = "searching"
               /\ search' = [search EXCEPT !.tested = search.tested \cup {n}]
    /\ UNCHANGED <<overflow_checks, c_coin, c_log>>
    /\ UNCHANGED channel_vars

\* The range is exhausted: find_any returns None and expect panics.
C_find_any_none ==
    /\ c_state = "searching" /\ search.kind = "threaded"
    /\ search.tested = ThreadedRange
    /\ c_state' = "not_found"
    /\ UNCHANGED <<overflow_checks, c_coin, c_log, search>>
    /\ UNCHANGED channel_vars

NextCoin ==
    \/ C_write
    \/ C_get_random_block
    \/ C_get_random_U256
    \/ C_get_random_FE
    \/ C_pow_find_nonce
    \/ C_find
    \/ C_pow_find_nonce_threaded
    \/ C_find_any
    \/ C_find_any_none

SpecCoin ==
    InitCoin /\ [][NextCoin]_vars

(***************************************************************************)

(* Vocabulary of the properties.                                           *)
(***************************************************************************)
Last(s) ==
    s[Len(s)]

\* The verifier was built from the prover's seed and the prover's proof.
BuiltFromProver ==
    /\ v_state \in {"live", "panicked"}
    /\ v_seed = seed
    /\ verifier.proof = prover.proof

\* The first k operations of the verifier repeat the first k of the prover.
FollowsProver(k) ==
    /\ k <= Len(v_log)
    /\ k <= Len(p_log)
    /\ \A j \in 1..k : Repeats(p_log[j], v_log[j].op, v_log[j].ty, v_log[j].arg)

\* The first k operations of the prover are writes.
OnlyWrites(k) ==
    \A j \in 1..k : p_log[j].op = "write"

RECURSIVE Flatten(_)
Flatten(runs) ==
    IF runs = <<>> THEN <<>> ELSE Head(runs) \o Flatten(Tail(runs))

\* The encoding of section "Encodings" for a written value of type ty.
Payload(ty, arg) ==
    IF ty = "block" THEN arg
    ELSE IF ty \in {"u64", "U256", "FE"} THEN [i \in 1..Len(arg) |-> arg[Len(arg) + 1 - i]]
    ELSE Flatten([k \in 1..Len(arg) |-> [i \in 1..BlockLen |-> arg[k][BlockLen + 1 - i]]])

\* encoded_size(T) of a single-value replay.
EncodedSize(ty) ==
    IF ty = "u64" THEN 8 ELSE 32

\* C1 (round trip): a verifier built from (seed, prover.proof) that replays the
\* prover's typed writes in the same type sequence (replay for single values,
\* replay_many(n) for the n-element sequences) gets back the written values,
\* and after each replay its digest is the prover's digest after that write.
C1_RoundTrip ==
    BuiltFromProver =>
        \A k \in 1..Len(v_log) :
            (FollowsProver(k) /\ OnlyWrites(k)) =>
                /\ v_log[k].ok
                /\ v_log[k].val = p_log[k].arg
                /\ v_log[k].post.digest = p_log[k].post.digest

\* Two writes of different widths, the second a two-element slice, replayed.
C1_Witness ==
    /\ BuiltFromProver
    /\ Len(v_log) = 2
    /\ FollowsProver(2) /\ OnlyWrites(2)
    /\ v_log[1].ty = "u64"
    /\ v_log[2].ty = "FEs" /\ v_log[2].arg = 2 /\ v_log[2].ok

\* C2 (challenge synchronisation): when the verifier repeats the prover's
\* writes and draws position by position, its coin (digest and counter) equals
\* the prover's after every step, and every challenge it draws is the
\* challenge the prover drew there.
C2_ChallengeSync ==
    BuiltFromProver =>
        \A k \in 1..Len(v_log) :
            FollowsProver(k) =>
                /\ v_log[k].post = p_log[k].post
                /\ v_log[k].op = "draw" => v_log[k].val = p_log[k].val

\* A write followed by a field-element draw, both repeated by the verifier.
C2_Witness ==
    /\ BuiltFromProver
    /\ Len(v_log) = 2
    /\ FollowsProver(2)
    /\ p_log[1].op = "write" /\ p_log[1].ty = "U256s" /\ Len(p_log[1].arg) = 2
    /\ p_log[2].op = "draw" /\ p_log[2].ty = "FE"

\* The payloads of the writes among the first k operations of the prover.
RECURSIVE WrittenPayloads(_)
WrittenPayloads(k) ==
    IF k = 0 THEN <<>>
    ELSE WrittenPayloads(k - 1) \o
         (IF p_log[k].op = "write" THEN Payload(p_log[k].ty, p_log[k].arg) ELSE <<>>)

\* The bytes the coin absorbed in events h0+1..h1 of its history; the events
\* are all absorptions.
AbsorbedIn(hist, h0, h1) ==
    Flatten([i \in 1..(h1 - h0) |-> hist[h0 + i].data])

OnlyAbsorbs(hist, h0, h1) ==
    \A i \in (h0 + 1)..h1 : hist[i].ev = "absorb"

\* C3 (proof buffer): after any sequence of prover operations the proof starts
\* with the seed, has never shrunk, and after the seed is the concatenation,
\* in call order, of the encoded payloads of the writes; the bytes a write
\* appended are the bytes the coin absorbed in that write; draws and
\* proof-of-work calls leave the proof as it was.
C3_ProofIsTranscript ==
    /\ Len(prover.proof) >= Len(seed)
    /\ SubSeq(prover.proof, 1, Len(seed)) = seed
    /\ prover.proof = seed \o WrittenPayloads(Len(p_log))
    /\ \A k \in 1..Len(p_log) :
          LET e == p_log[k]
          IN  /\ e.c0 = Len(seed \o WrittenPayloads(k - 1))
              /\ e.c1 >= e.c0
              /\ e.op = "write" =>
                    /\ OnlyAbsorbs(prover.coin.hist, e.h0, e.h1)
                    /\ AbsorbedIn(prover.coin.hist, e.h0, e.h1)
                          = SubSeq(prover.proof, e.c0 + 1, e.c1)
              /\ e.op \in {"draw", "pow"} => e.c1 = e.c0

\* A two-element Vec<U256> write followed by a proof-of-work search.
C3_Witness ==
    /\ Len(p_log) = 2
    /\ p_log[1].op = "write" /\ p_log[1].ty = "U256s" /\ Len(p_log[1].arg) = 2
    /\ p_log[2].op = "pow" /\ p_log[2].ty = "find"
    /\ Len(prover.proof) = Len(seed) + 64

\* proof[0..seed.len()] differs from seed, or proof is shorter than seed.
PrefixDiffers(s, pf) ==
    \/ Len(pf) < Len(s)
    \/ \E i \in 1..Len(s) : pf[i] # s[i]

\* C4 (prefix check): VerifierChannel::new(seed, proof) fails exactly when
\* proof[0..seed.len()] differs from seed, a proof shorter than the seed
\* included; then there is no channel and no replay happens; otherwise the
\* channel starts with coin = PublicCoin::new(seed) and cursor = seed.len().
C4_PrefixMismatch ==
    v_state # "none" =>
        /\ (v_state = "new_panicked") <=> PrefixDiffers(v_seed, verifier.proof)
        /\ v_state = "new_panicked" =>
              /\ v_log = <<>>
              /\ verifier.coin = NoChannel.coin
        /\ (v_state = "live" /\ v_log = <<>>) =>
              /\ CoinState(verifier.coin) = CoinState(PublicCoinNew(v_seed))
              /\ verifier.proof_index = Len(v_seed)

\* new failed on a proof that is shorter than the seed.
C4_Witness ==
    /\ v_state = "new_panicked"
    /\ Len(verifier.proof) < Len(v_seed)
    /\ verifier.proof # <<>>

\* C5 (single replay out of bounds): a replay of a [u8; 32], u64, U256 or
\* FieldElement fails whenever fewer than encoded_size(T) bytes remain after
\* the cursor, and a failed replay leaves the coin (digest, counter) unchanged.
C5_ReplayOutOfBounds ==
    \A k \in 1..Len(v_log) :
        LET e == v_log[k]
        IN  (e.op = "replay" /\ e.ty \in {"block", "u64", "U256", "FE"}) =>
                /\ Len(verifier.proof) - e.c0 < EncodedSize(e.ty) => ~e.ok
                /\ ~e.ok => (e.post = e.pre /\ e.h1 = e.h0)

\* A u64 replay that failed with some, but fewer than eight, bytes left.
C5_Witness ==
    /\ v_log # <<>>
    /\ Last(v_log).op = "replay" /\ Last(v_log).ty = "u64" /\ ~Last(v_log).ok
    /\ Len(verifier.proof) - Last(v_log).c0 > 0
    /\ v_state = "panicked"

\* C6 (replay_many out of bounds): replay_many(n), for FieldElement and for
\* U256, fails when fewer than n * 32 bytes remain after the cursor, and after
\* the failure the coin's digest and counter are what they were before the
\* call.
C6_ReplayManyFailsBeforeCoin ==
    \A k \in 1..Len(v_log) :
        LET e == v_log[k]
        IN  (e.op = "replay" /\ e.ty \in {"FEs", "U256s"}) =>
                /\ Len(verifier.proof) - e.c0 < e.arg * BlockLen => ~e.ok
                /\ ~e.ok => e.post = e.pre

\* The same statement for the FieldElement replay_many alone, whose loop
\* reads every element before the single coin.write.
C6_FieldElementOnly ==
    \A k \in 1..Len(v_log) :
        LET e == v_log[k]
        IN  (e.op = "replay" /\ e.ty = "FEs") =>
                /\ Len(verifier.proof) - e.c0 < e.arg * BlockLen => ~e.ok
                /\ ~e.ok => (e.post = e.pre /\ e.h1 = e.h0)

\* replay_many::<U256>(2) failed on its second element, the first absorbed.
C6_Witness ==
    /\ v_log # <<>>
    /\ Last(v_log).op = "replay" /\ Last(v_log).ty = "U256s"
    /\ Last(v_log).arg = 2 /\ ~Last(v_log).ok
    /\ Last(v_log).h1 = Last(v_log).h0 + 1
    /\ Last(v_log).post.digest # Last(v_log).pre.digest

\* C7 (cursor bounds): in every state of a VerifierChannel, the state a replay
\* or replay_many running past the end of the buffer leaves included, the
\* cursor is at least seed.len() and at most proof.len(), and no operation
\* decreases it.
C7_CursorBounds ==
    v_state \in {"live", "panicked"} =>
        /\ Len(v_seed) <= verifier.proof_index
        /\ verifier.proof_index <= Len(verifier.proof)
        /\ \A k \in 1..Len(v_log) : v_log[k].c0 <= v_log[k].c1
        /\ \A k \in 1..Len(v_log) : v_log[k].c1 <= Len(verifier.proof)

\* The lower bound and the monotonicity alone, and the upper bound while no
\* replay has failed.
C7_CursorWhileLive ==
    v_state \in {"live", "panicked"} =>
        /\ Len(v_seed) <= verifier.proof_index
        /\ \A k \in 1..Len(v_log) : v_log[k].c0 <= v_log[k].c1
        /\ v_state = "live" => verifier.proof_index <= Len(verifier.proof)

\* A replay of a [u8; 32] failed and left the cursor past the end.
C7_Witness ==
    /\ v_state = "panicked"
    /\ Last(v_log).ty = "block"
    /\ verifier.proof_index > Len(verifier.proof)

\* The index of the last absorption among the first i events of a coin's
\* history, 0 when there is none.
LastAbsorb(hist, i) ==
    LET S == {j \in 1..i : hist[j].ev = "absorb"}
    IN  IF S = {} THEN 0 ELSE CHOOSE j \in S : \A m \in S : m <= j

\* The coin (digest, counter) the discipline prescribes after events i..h1 of
\* the history, from st; ok records that every draw hashed st.counter.
RECURSIVE Disciplined(_, _, _, _)
Disciplined(st, hist, i, h1) ==
    IF i > h1 THEN st
    ELSE IF hist[i].ev = "absorb"
    THEN Disciplined([digest  |-> Keccak256(st.digest \o hist[i].data),
                      counter |-> U64FromNat(0),
                      ok      |-> st.ok], hist, i + 1, h1)
    ELSE Disciplined([digest  |-> st.digest,
                      counter |-> Inc64(st.counter),
                      ok      |-> st.ok /\ hist[i].data = u64_to_be_bytes(st.counter)],
                     hist, i + 1, h1)

CounterDiscipline(coin, log) ==
    /\ \A i \in 1..Len(coin.hist) :
          coin.hist[i].ev = "draw" =>
              coin.hist[i].data =
                  u64_to_be_bytes(U64FromNat(i - 1 - LastAbsorb(coin.hist, i - 1)))
    /\ coin.counter = U64FromNat(Len(coin.hist) - LastAbsorb(coin.hist, Len(coin.hist)))
    /\ \A k \in 1..Len(log) :
          LET e  == log[k]
              st == Disciplined([digest |-> e.pre.digest, counter |-> e.pre.counter,
                                 ok |-> TRUE], coin.hist, e.h0 + 1, e.h1)
          IN  /\ st.ok
              /\ e.post = [digest |-> st.digest, counter |-> st.counter]
              /\ (e.op = "write" /\ e.ty \in {"FEs", "block"}) =>
                    (e.h1 = e.h0 + 1 /\ e.post.counter = U64FromNat(0))
              /\ (e.op = "draw" /\ e.ty = "block") =>
                    /\ e.h1 = e.h0 + 1
                    /\ e.val = Keccak256(e.pre.digest \o Zeros(PadLen)
                                            \o u64_to_be_bytes(e.pre.counter))
                    /\ e.post.counter = Inc64(e.pre.counter)

\* C8 (counter discipline): every absorption, of empty data included, sets
\* counter to 0 and digest to H(old_digest || data); every draw_block hashes the
\* current counter and then adds one to it, so that the k-th draw after an
\* absorption (or after new) hashes counter k - 1.
C8_CounterDiscipline ==
    /\ CounterDiscipline(prover.coin, p_log)
    /\ v_state \in {"live", "panicked"} => CounterDiscipline(verifier.coin, v_log)

\* A draw, then the write of an empty slice, which resets the counter.
C8_Witness ==
    /\ Len(p_log) = 2
    /\ p_log[1].op = "draw" /\ p_log[1].post.counter = U64FromNat(1)
    /\ p_log[2].op = "write" /\ p_log[2].ty = "FEs" /\ p_log[2].arg = <<>>
    /\ prover.coin.counter = U64FromNat(0)
    /\ Len(v_log) = 2 /\ v_log[2].ok /\ verifier.coin.counter = U64FromNat(0)

\* The step performed an operation op on the prover (on the verifier).
ProverDid(op) ==
    /\ Len(p_log') = Len(p_log) + 1
    /\ p_log'[Len(p_log')].op = op

VerifierDid(op) ==
    /\ Len(v_log') = Len(v_log) + 1
    /\ v_log'[Len(v_log')].op = op

FrameOfDrawsAndPow ==
    /\ ProverDid("draw") =>
          /\ prover'.coin.digest = prover.coin.digest
          /\ prover'.proof = prover.proof
          /\ prover'.coin.counter # prover.coin.counter
          /\ verifier' = verifier
    /\ VerifierDid("draw") =>
          /\ verifier'.coin.digest = verifier.coin.digest
          /\ verifier'.proof = verifier.proof
          /\ verifier'.proof_index = verifier.proof_index
          /\ verifier'.coin.counter # verifier.coin.counter
          /\ prover' = prover
    /\ ProverDid("pow") =>
          /\ CoinState(prover'.coin) = CoinState(prover.coin)
          /\ prover'.proof = prover.proof
          /\ verifier' = verifier
    /\ VerifierDid("pow") =>
          /\ CoinState(verifier'.coin) = CoinState(verifier.coin)
          /\ verifier'.proof = verifier.proof
          /\ verifier'.proof_index = verifier.proof_index
          /\ prover' = prover

\* C9 (frame of draws and proof-of-work): a challenge draw (block, U256,
\* FieldElement) leaves the digest, the prover's proof and the verifier's proof
\* and cursor unchanged and changes the counter only; pow_seed, pow_verify,
\* pow_find_nonce and pow_find_nonce_threaded leave digest, counter, proof and
\* cursor unchanged.
C9_FrameOfDrawsAndPow ==
    [][FrameOfDrawsAndPow]_vars

\* Both channels drew a FieldElement after a write and then searched a nonce.
C9_Witness ==
    /\ Len(p_log) = 2 /\ Len(v_log) = 2
    /\ p_log[1].op = "draw" /\ p_log[1].ty = "FE"
    /\ p_log[2].op = "pow" /\ p_log[2].ty = "find_threaded"
    /\ v_log[1].op = "draw" /\ v_log[1].ty = "FE"
    /\ v_log[2].op = "pow" /\ v_log[2].ty = "find_threaded"
    /\ verifier.proof_index = Len(v_seed)
    /\ prover.coin.counter # U64FromNat(0)

\* A prover channel holding the coin (digest, counter) st and an empty proof.
ChannelAt(st) ==
    [coin  |-> [digest |-> st.digest, counter |-> st.counter, hist |-> <<>>],
     proof |-> <<>>]

\* Writing the elements of data one by one with the &FieldElement write.
RECURSIVE WriteEachFE(_, _)
WriteEachFE(ch, data) ==
    IF data = <<>> THEN ch
    ELSE WriteEachFE(ProverWriteFE(ch, Head(data)), Tail(data))

\* C10 (slice against elements): from the same channel state, the
\* FieldElement-slice write of [a, b] is one absorption of the 64 concatenated
\* bytes, the writes of a then b, and the write of Vec<U256>([a, b]), are two
\* absorptions of 32 bytes each, and the digest after the one absorption
\* differs from the digest after the two.
C10_SliceVsElements ==
    \A k \in 1..Len(p_log) :
        LET e  == p_log[k]
            n  == Len(e.arg)
            H  == prover.coin.hist
            ch == ChannelAt(e.pre)
        IN  /\ (e.op = "write" /\ e.ty = "FEs" /\ n >= 2) =>
                  /\ e.h1 = e.h0 + 1
                  /\ H[e.h1].ev = "absorb"
                  /\ H[e.h1].data = Payload("FEs", e.arg)
                  /\ Len(H[e.h1].data) = n * BlockLen
                  /\ Len(WriteEachFE(ch, e.arg).coin.hist) = n
                  /\ Len(ProverWriteVecU256(ch, e.arg).coin.hist) = n
                  /\ WriteEachFE(ch, e.arg).proof = Payload("FEs", e.arg)
                  /\ ProverWriteVecU256(ch, e.arg).proof = Payload("FEs", e.arg)
                  /\ e.post.digest # WriteEachFE(ch, e.arg).coin.digest
                  /\ e.post.digest # ProverWriteVecU256(ch, e.arg).coin.digest
            /\ (e.op = "write" /\ e.ty = "U256s" /\ n >= 2) =>
                  /\ e.h1 = e.h0 + n
                  /\ \A i \in (e.h0 + 1)..e.h1 :
                        /\ H[i].ev = "absorb"
                        /\ H[i].data = Payload("U256", e.arg[i - e.h0])
                        /\ Len(H[i].data) = BlockLen
                  /\ e.post.digest = WriteEachFE(ch, e.arg).coin.digest
                  /\ e.post.digest # ProverWriteFESlice(ch, e.arg).coin.digest

\* A slice write of two elements after a draw, the counter being 1.
C10_Witness ==
    /\ Len(p_log) = 2
    /\ p_log[1].op = "draw"
    /\ p_log[2].op = "write" /\ p_log[2].ty = "FEs" /\ Len(p_log[2].arg) = 2
    /\ Len(prover.proof) = Len(seed) + 64

\* C11 (absorption structure of replay_many): for every n >= 0,
\* replay_many::<FieldElement>(n) that returns has made exactly one absorption,
\* of the run of 32 * n bytes after the cursor (of the empty string when n = 0,
\* which changes the digest and resets the counter), and
\* replay_many::<U256>(n) has made exactly n absorptions of 32 bytes each, in
\* buffer order (none when n = 0, the coin being left as it was); where the
\* verifier repeats the prover, the absorptions are those of the prover's write.
C11_ReplayManyAbsorptions ==
    \A k \in 1..Len(v_log) :
        LET e == v_log[k]
            H == verifier.coin.hist
            n == e.arg
        IN  /\ (e.op = "replay" /\ e.ty = "FEs" /\ e.ok) =>
                  /\ e.h1 = e.h0 + 1
                  /\ H[e.h1] = [ev   |-> "absorb",
                                data |-> SubSeq(verifier.proof, e.c0 + 1, e.c0 + BlockLen * n)]
                  /\ Len(H[e.h1].data) = BlockLen * n
                  /\ e.c1 = e.c0 + BlockLen * n
                  /\ e.post.digest # e.pre.digest
                  /\ e.post.counter = U64FromNat(0)
            /\ (e.op = "replay" /\ e.ty = "U256s" /\ e.ok) =>
                  /\ e.h1 = e.h0 + n
                  /\ \A i \in 1..n :
                        H[e.h0 + i] =
                            [ev   |-> "absorb",
                             data |-> SubSeq(verifier.proof, e.c0 + BlockLen * (i - 1) + 1,
                                             e.c0 + BlockLen * i)]
                  /\ e.c1 = e.c0 + BlockLen * n
                  /\ n = 0 => e.post = e.pre
            /\ (e.op = "replay" /\ e.ty \in {"FEs", "U256s"} /\ e.ok
                  /\ BuiltFromProver /\ FollowsProver(k)) =>
                  /\ e.h1 - e.h0 = p_log[k].h1 - p_log[k].h0
                  /\ \A i \in 1..(e.h1 - e.h0) :
                        H[e.h0 + i] = prover.coin.hist[p_log[k].h0 + i]

\* replay_many::<FieldElement>(0) after a draw: the counter, 1, is reset.
C11_Witness ==
    /\ Len(v_log) = 2
    /\ v_log[1].op = "draw"
    /\ v_log[2].op = "replay" /\ v_log[2].ty = "FEs" /\ v_log[2].arg = 0 /\ v_log[2].ok
    /\ v_log[2].pre.counter # U64FromNat(0)
    /\ verifier.coin.counter = U64FromNat(0)

\* The value of a u64 below 256^3.
U64ToNat(x) ==
    x[1] + 256 * x[2] + 65536 * x[3]

\* The proof-of-work calls of both channels, as log entries.
PowCalls ==
    {p_log[k] : k \in {j \in 1..Len(p_log) : p_log[j].op = "pow"}} \cup
    {v_log[k] : k \in {j \in 1..Len(v_log) : v_log[j].op = "pow"}}

\* The coin a log entry's operation started from.
CoinAt(st) ==
    [digest |-> st.digest, counter |-> st.counter, hist |-> <<>>]

\* C12 (proof-of-work soundness): the nonce pow_find_nonce returned verifies
\* with pow_verify on the same coin and the same bits, and so does the nonce
\* pow_find_nonce_threaded returned, whichever match find_any handed back.
C12_PowSound ==
    \A e \in PowCalls :
        e.ty \in {"find", "find_threaded"} =>
            pow_verify(CoinAt(e.pre), e.val, e.arg[1])

\* After a write, the prover and the verifier that repeats it searched in
\* parallel with bits = 2 on the same digest, and were handed different nonces.
C12_Witness ==
    /\ BuiltFromProver /\ Len(v_log) = 2 /\ FollowsProver(2)
    /\ p_log[1].op = "write"
    /\ p_log[2].op = "pow" /\ p_log[2].ty = "find_threaded" /\ p_log[2].arg = <<2>>
    /\ v_log[2].pre.digest = p_log[2].pre.digest
    /\ v_log[2].val # p_log[2].val

\* C13 (serial minimality): pow_find_nonce returns the smallest nonce for
\* which pow_verify holds: no nonce below the returned one verifies.
\* pow_find_nonce_threaded returns a nonce that verifies, not always the
\* smallest (C13_Witness).
C13_SerialMinimal ==
    \A e \in PowCalls :
        e.ty = "find" =>
            /\ pow_verify(CoinAt(e.pre), e.val, e.arg[1])
            /\ \A m \in 0..MaxNonce :
                  m < U64ToNat(e.val) => ~pow_verify(CoinAt(e.pre), U64FromNat(m), e.arg[1])

\* A parallel search with bits = 2 returned a nonce that is not the smallest
\* that verifies, on a coin where nonce 0 does not verify.
C13_Witness ==
    /\ p_log # <<>>
    /\ Last(p_log).op = "pow" /\ Last(p_log).ty = "find_threaded"
    /\ Last(p_log).arg = <<2>>
    /\ ~pow_verify(prover.coin, U64FromNat(0), 2)
    /\ U64ToNat(pow_find_nonce(prover.coin, 2)) < U64ToNat(Last(p_log).val)
    /\ pow_verify(prover.coin, Last(p_log).val, 2)

\* The nonces of the searched range that verify for the search under way.
Verifying ==
    {n \in NonceRange : pow_verify_with_seed(n, search.bits, search.pseed)}

\* The search ended without a nonce.
SearchFailed ==
    c_state \in {"not_found", "search_overflow"}

\* C14 (exhaustive search): pow_find_nonce and pow_find_nonce_threaded fail
\* only when no nonce of the full range 0..=u64::MAX verifies; when u64::MAX
\* is the only nonce that verifies, both return it instead of failing.
C14_ExhaustiveSearch ==
    search.kind # "none" =>
        /\ SearchFailed => Verifying = {}
        /\ Verifying = {U64Max} => ~SearchFailed
        /\ (c_state = "found" /\ Verifying = {U64Max}) => search.result = U64Max

\* What the searches do instead: the parallel search fails exactly when it has
\* tested the half-open range 0..u64::MAX with no match, whatever u64::MAX
\* does; the serial search never reports that no nonce was found: it returns a
\* nonce, or overflows at u64::MAX before testing it (overflow checks on), or
\* starts again from 0 (overflow checks off).
C14_HalfOpenSearch ==
    search.kind # "none" =>
        /\ c_state = "not_found" =>
              /\ search.kind = "threaded"
              /\ Verifying \cap ThreadedRange = {}
        /\ c_state = "search_overflow" =>
              /\ search.kind = "serial"
              /\ overflow_checks
              /\ Verifying \subseteq {U64Max}
        /\ c_state = "found" => search.result \in Verifying
        /\ (search.kind = "threaded" /\ c_state = "found") =>
              search.result # U64Max
        /\ (search.kind = "serial" /\ ~overflow_checks) => ~SearchFailed

\* The parallel search failed on a coin for which u64::MAX verifies.
C14_Witness ==
    /\ c_state = "not_found"
    /\ search.kind = "threaded"
    /\ Verifying = {U64Max}

\* The block draw_block computes from the coin (digest, counter) st.
BlockAt(st) ==
    Keccak256(st.digest \o Zeros(PadLen) \o u64_to_be_bytes(st.counter))

\* The draws of a block made with the counter at 2^64 - 1.
DrawsAtMax ==
    {c_log[k] : k \in {j \in 1..Len(c_log) :
                          /\ c_log[j].op = "draw" /\ c_log[j].ty = "block"
                          /\ c_log[j].pre.counter = U64Max}}

\* C19 (counter overflow wraps silently): with the counter at 2^64 - 1,
\* draw_block returns the block computed from that counter, raises no error,
\* and leaves the counter at 0.
C19_WrapsSilently ==
    \A e \in DrawsAtMax :
        /\ e.ok
        /\ e.val = BlockAt(e.pre)
        /\ e.post = [digest |-> e.pre.digest, counter |-> U64FromNat(0)]

\* C19, amended: with the counter at 2^64 - 1, draw_block in a build without
\* overflow checks returns the block computed from that counter and leaves
\* the counter at 0, the digest unchanged; in a build with overflow checks it
\* panics at self.counter += 1, returns nothing and leaves the coin as it was.
C19_WrapsOrPanics ==
    \A e \in DrawsAtMax :
        IF overflow_checks
        THEN ~e.ok /\ e.post = e.pre
        ELSE /\ e.ok
             /\ e.val = BlockAt(e.pre)
             /\ e.post = [digest |-> e.pre.digest, counter |-> U64FromNat(0)]

\* Without overflow checks, a draw at 2^64 - 1 and a second draw, at 0.
C19_Witness ==
    /\ ~overflow_checks
    /\ Len(c_log) = 2
    /\ c_log[1] \in DrawsAtMax /\ c_log[1].ok
    /\ c_log[2].op = "draw" /\ c_log[2].ty = "block"
    /\ c_log[2].pre.counter = U64FromNat(0)
    /\ c_log[2].val = BlockAt(c_log[2].pre)
    /\ c_coin.counter = U64FromNat(1)

\* A coin holding the digest d and a counter no channel of Spec reaches.
CoinOfDigest(d) ==
    [digest |-> d, counter |-> U64Max, hist |-> <<>>]

\* What the proof-of-work call e returns on the coin cn.
PowResult(e, cn) ==
    IF e.ty = "seed" THEN pow_seed(cn, e.arg[1])
    ELSE IF e.ty = "verify" THEN pow_verify(cn, U64FromNat(e.arg[1]), e.arg[2])
    ELSE pow_find_nonce(cn, e.arg[1])

\* In log, the write at k made an absorption after the proof-of-work call at
\* j: the digest, and the seed of the proof of work, are no longer those of j.
AbsorptionRebinds(log) ==
    \A j \in 1..Len(log), k \in 1..Len(log) :
        (j < k /\ log[j].op = "pow" /\ log[k].op \in {"write", "replay"}
               /\ log[k].h1 > log[k].h0) =>
            /\ log[k].post.digest # log[j].pre.digest
            /\ pow_seed(CoinAt(log[k].post), Last(log[j].arg))
                  # pow_seed(CoinAt(log[j].pre), Last(log[j].arg))

\* C15 (proof of work depends on digest and bits only): pow_seed, pow_verify
\* and the serial pow_find_nonce return, on either channel, what they return on
\* any coin holding the same digest, whatever the counter, the proof and the
\* cursor; two calls with the same arguments on equal digests return the same;
\* an absorption after a call changes the digest the call was bound to.
C15_PowOnDigestOnly ==
    /\ \A e \in PowCalls :
          e.ty \in {"seed", "verify", "find"} =>
              e.val = PowResult(e, CoinOfDigest(e.pre.digest))
    /\ \A e1 \in PowCalls, e2 \in PowCalls :
          (e1.ty = e2.ty /\ e1.ty # "find_threaded" /\ e1.arg = e2.arg
              /\ e1.pre.digest = e2.pre.digest) => e1.val = e2.val
    /\ AbsorptionRebinds(p_log)
    /\ v_state \in {"live", "panicked"} => AbsorptionRebinds(v_log)

\* After a draw, the counters being above 0, the prover and the verifier
\* search with bits = 2 and find the nonce a coin of the same digest and
\* another counter gives.
C15_Witness ==
    /\ BuiltFromProver /\ Len(v_log) = 2 /\ FollowsProver(2)
    /\ p_log[1].op = "draw"
    /\ p_log[2].op = "pow" /\ p_log[2].ty = "find" /\ p_log[2].arg = <<2>>
    /\ p_log[2].pre.counter # U64FromNat(0)
    /\ v_log[2].val = p_log[2].val
    /\ p_log[2].val = pow_find_nonce(CoinOfDigest(prover.coin.digest), 2)

\* A second prover channel performs the write or the draw the entry e
\* describes by (op, ty, arg); [ch, out].
TwinDoes(ch, e) ==
    IF e.op = "write"
    THEN [ch  |-> IF e.ty = "block" THEN ProverWriteBlock(ch, e.arg)
                  ELSE IF e.ty = "u64" THEN ProverWriteU64(ch, e.arg)
                  ELSE IF e.ty = "U256" THEN ProverWriteU256(ch, e.arg)
                  ELSE IF e.ty = "FE" THEN ProverWriteFE(ch, e.arg)
                  ELSE IF e.ty = "FEs" THEN ProverWriteFESlice(ch, e.arg)
                  ELSE ProverWriteVecU256(ch, e.arg),
          out |-> <<>>]
    ELSE LET r == IF e.ty = "block" THEN CoinGetRandomBlock(ch.coin)
                  ELSE IF e.ty = "U256" THEN CoinGetRandomU256(ch.coin)
                  ELSE CoinGetRandomFE(ch.coin)
         IN  [ch |-> [ch EXCEPT !.coin = r.coin], out |-> r.out]

\* The second channel, created from the same seed, after the first k
\* operations of the prover.
RECURSIVE Twin(_)
Twin(k) ==
    IF k = 0 THEN [ch |-> ProverChannelNew(seed), out |-> <<>>]
    ELSE TwinDoes(Twin(k - 1).ch, p_log[k])

\* The first k operations of the prover are writes and draws.
OnlyWritesAndDraws(k) ==
    \A j \in 1..k : p_log[j].op \in {"write", "draw"}

RECURSIVE IncBy(_, _)
IncBy(x, n) ==
    IF n = 0 THEN x ELSE IncBy(Inc64(x), n - 1)

\* The i-th candidate (from 0) of a FieldElement draw started on the coin
\* (digest, counter) st: the block drawn at counter + i, as a U256, masked.
Candidate(st, i) ==
    MaskTop4(U256_from_bytes_be(
        BlockAt([digest |-> st.digest, counter |-> IncBy(st.counter, i)])))

\* The FieldElement draws of log, made on a coin of history hist, are
\* rejection sampling: r rejected candidates, then the one returned.
RejectionSampling(log, hist) ==
    \A k \in 1..Len(log) :
        LET e == log[k]
            r == e.h1 - e.h0 - 1
        IN  (e.op = "draw" /\ e.ty = "FE") =>
                /\ r >= 0
                /\ \A i \in (e.h0 + 1)..e.h1 : hist[i].ev = "draw"
                /\ \A i \in 0..(r - 1) : ~U256Lt(Candidate(e.pre, i), MODULUS)
                /\ e.val = Candidate(e.pre, r)
                /\ U256Lt(e.val, MODULUS)
                /\ e.val[BlockLen] < 16
                /\ e.post = [digest |-> e.pre.digest, counter |-> IncBy(e.pre.counter, r + 1)]

\* C17 (challenge range): every FieldElement challenge is a drawn block with
\* its top four bits cleared and is below MODULUS; every candidate before it
\* was at or above MODULUS and took one increment of the counter, so that a
\* draw rejecting r candidates advances the counter by r + 1.
C17_ChallengeRange ==
    /\ RejectionSampling(p_log, prover.coin.hist)
    /\ v_state \in {"live", "panicked"} => RejectionSampling(v_log, verifier.coin.hist)

\* The prover's draw rejected at least one candidate; the verifier repeated it.
C17_Witness ==
    /\ BuiltFromProver /\ v_log # <<>> /\ FollowsProver(Len(v_log))
    /\ Last(v_log).op = "draw" /\ Last(v_log).ty = "FE"
    /\ Last(v_log).h1 - Last(v_log).h0 >= 2
    /\ ~U256Lt(Candidate(Last(v_log).pre, 0), MODULUS)
    /\ U256Lt(Last(v_log).val, MODULUS)

\* The U256 the 32 bytes of the verifier's proof after position c encode.
RawAt(c) ==
    U256_from_bytes_be(SubSeq(verifier.proof, c + 1, c + BlockLen))

\* C18 (replay of a FieldElement accepts any 32 bytes): replay and replay_many
\* for FieldElement return whenever the bytes are there, whether or not they
\* encode an integer below MODULUS; they return the integers encoded,
\* unreduced, and absorb exactly the bytes of the proof.
C18_ReplayRawFieldElement ==
    \A k \in 1..Len(v_log) :
        LET e == v_log[k]
            H == verifier.coin.hist
        IN  /\ (e.op = "replay" /\ e.ty = "FE") =>
                  /\ e.ok <=> e.c0 + BlockLen <= Len(verifier.proof)
                  /\ e.ok =>
                        /\ e.val = RawAt(e.c0)
                        /\ e.h1 = e.h0 + 1
                        /\ H[e.h1].data = SubSeq(verifier.proof, e.c0 + 1, e.c0 + BlockLen)
                        /\ e.c1 = e.c0 + BlockLen
            /\ (e.op = "replay" /\ e.ty = "FEs") =>
                  /\ e.ok <=> e.c0 + BlockLen * e.arg <= Len(verifier.proof)
                  /\ e.ok =>
                        /\ Len(e.val) = e.arg
                        /\ \A i \in 1..e.arg : e.val[i] = RawAt(e.c0 + BlockLen * (i - 1))
                        /\ e.h1 = e.h0 + 1
                        /\ H[e.h1].data =
                              SubSeq(verifier.proof, e.c0 + 1, e.c0 + BlockLen * e.arg)

\* A U256 at or above MODULUS was written and replayed as a FieldElement.
C18_Witness ==
    /\ Len(p_log) = 1 /\ Len(v_log) = 1
    /\ p_log[1].op = "write" /\ p_log[1].ty = "U256"
    /\ v_log[1].op = "replay" /\ v_log[1].ty = "FE" /\ v_log[1].ok
    /\ ~U256Lt(v_log[1].val, MODULUS)
    /\ v_log[1].val = p_log[1].arg

\* The four writes of the 32 bytes b from the prover channel ch.
WritesOf32(ch, b) ==
    {ProverWriteBlock(ch, b),
     ProverWriteU256(ch, U256_from_bytes_be(b)),
     ProverWriteFE(ch, U256_from_bytes_be(b)),
     ProverWriteFESlice(ch, <<U256_from_bytes_be(b)>>)}

\* What the four replays of 32 bytes do to the verifier channel ch: for each,
\* whether it returned and the channel it left.
ReplaysOf32(ch) ==
    {[ok |-> r.ok, ch |-> r.ch] :
        r \in {VerifierReplayBlock(ch), VerifierReplayU256(ch),
               VerifierReplayFE(ch), VerifierReplayManyFE(ch, 1)}}

\* The operation of the entry e moves one value of 32 bytes.
MovesOne32(e) ==
    \/ e.ty \in {"block", "U256", "FE"}
    \/ e.ty = "FEs" /\ (IF e.op = "write" THEN Len(e.arg) ELSE e.arg) = 1

\* C20 (no type separation): from one channel state, the writes of 32 bytes
\* as a block, as the U256 they encode, as the FieldElement of that value and
\* as a slice holding that one FieldElement leave the same proof and the same
\* coin; the replays of 32 bytes as [u8; 32], U256, FieldElement and
\* replay_many::<FieldElement>(1) leave the same coin and the same cursor.
C20_NoTypeSeparation ==
    /\ \A k \in 1..Len(p_log) :
          LET e == p_log[k]
              W == WritesOf32(ChannelAt(e.pre), Payload(e.ty, e.arg))
          IN  (e.op = "write" /\ MovesOne32(e)) =>
                  /\ Cardinality(W) = 1
                  /\ \A w \in W :
                        /\ w.proof = SubSeq(prover.proof, e.c0 + 1, e.c1)
                        /\ Len(w.proof) = BlockLen
                        /\ CoinState(w.coin) = e.post
    /\ \A k \in 1..Len(v_log) :
          LET e == v_log[k]
              R == ReplaysOf32([coin |-> CoinAt(e.pre), proof |-> verifier.proof,
                                proof_index |-> e.c0])
          IN  (e.op = "replay" /\ MovesOne32(e)) =>
                  /\ Cardinality(R) = 1
                  /\ \A r \in R :
                        /\ r.ok = e.ok
                        /\ CoinState(r.ch.coin) = e.post
                        /\ r.ch.proof_index = e.c1

\* A slice of one FieldElement was written and replayed as a [u8; 32].
C20_Witness ==
    /\ Len(p_log) = 1 /\ Len(v_log) = 1
    /\ p_log[1].op = "write" /\ p_log[1].ty = "FEs" /\ Len(p_log[1].arg) = 1
    /\ v_log[1].op = "replay" /\ v_log[1].ty = "block" /\ v_log[1].ok
    /\ v_log[1].val = Payload("FEs", p_log[1].arg)
    /\ v_log[1].post = p_log[1].post

====
